---- MODULE Spec2Model ----
(***************************************************************************)
(* Model of meta-scraper (src/main.py): load_websites, fetch_metadata,     *)
(* save_metadata, save_to_csv, process_urls and the __main__ block.        *)
(*                                                                         *)
(* Python strings are TLA+ strings; TLC evaluates Len, SubSeq and \o on    *)
(* them.  The sentinel of the source is three em-dashes separated by       *)
(* blanks; the module writes it with ASCII hyphens (no_data).              *)
(***************************************************************************)
EXTENDS Integers, Sequences, FiniteSets, TLC

VARIABLES
    \* ---- one run of the program (__main__) ----
    pc,              \* position in __main__ / process_urls
    config,          \* what websites.json is on disk
    websites,        \* first value returned by load_websites
    partisans_urls,  \* second value returned by load_websites
    group,           \* 1: websites, 2: partisans_urls
    i,               \* index of the next URL of the for loop of process_urls
    metadata_list,   \* the list process_urls accumulates
    files,           \* the file system below output/: path -> content
    out,             \* lines printed by the current call of process_urls
    today,           \* what datetime.now().strftime("%Y%m%d") returns now
    \* ---- fetch_metadata on one parsed document ----
    soup,            \* the parsed document
    metadata,        \* what the extraction produced
    \* ---- the link classification of fetch_metadata ----
    url,             \* the source URL
    links,           \* the href values in document order
    internal_links,
    external_links,
    lpc,             \* "parsed" before the two comprehensions, "classified" after
    \* ---- save_metadata on one record, in one or two processes ----
    record,          \* the metadata record rendered
    hashseed,        \* string-hash seed of the running interpreter
    rendered         \* the documents written so far, oldest first

runVars    == <<pc, config, websites, partisans_urls, group, i, metadata_list,
                files, out, today>>
extractVars == <<soup, metadata>>
linkVars   == <<url, links, internal_links, external_links, lpc>>
renderVars == <<record, hashseed, rendered>>
vars       == <<runVars, extractVars, linkVars, renderVars>>

\* what a step of one part of the program leaves alone
outsideRun     == <<extractVars, linkVars, renderVars>>
outsideExtract == <<runVars, linkVars, renderVars>>
outsideLinks   == <<runVars, extractVars, renderVars>>
outsideRender  == <<runVars, extractVars, linkVars>>

-----------------------------------------------------------------------------
(* Bounds of the model. *)

MaxUrls   == 2   \* most URLs websites.json lists, both lists together
MaxRecords == 3  \* longest record collection handed to the export
MaxLinks  == 3   \* most <a href> elements of a document
MaxRenders == 2  \* how many times save_metadata renders the record

-----------------------------------------------------------------------------
(* Python str operations. *)

\* s[a:] for a 0-based a
From(s, a) == SubSeq(s, a + 1, Len(s))

\* s.startswith(p)
StartsWith(s, p) == Len(p) <= Len(s) /\ SubSeq(s, 1, Len(p)) = p

\* sub in s
Contains(s, sub) ==
    \E k \in 0..(Len(s) - Len(sub)) : SubSeq(s, k + 1, k + Len(sub)) = sub

\* s.find(sub): least 0-based index, -1 when absent
Find(s, sub) ==
    IF Contains(s, sub)
    THEN CHOOSE k \in 0..(Len(s) - Len(sub)) :
            /\ SubSeq(s, k + 1, k + Len(sub)) = sub
            /\ \A j \in 0..(k - 1) : SubSeq(s, j + 1, j + Len(sub)) # sub
    ELSE -1

\* s.replace(old, new) for a non-empty old: leftmost, non-overlapping
RECURSIVE Replace(_, _, _)
Replace(s, old, new) ==
    IF Len(s) < Len(old) THEN s
    ELSE IF StartsWith(s, old)
         THEN new \o Replace(From(s, Len(old)), old, new)
         ELSE SubSeq(s, 1, 1) \o Replace(From(s, 1), old, new)

\* s.rstrip(c) for a one-character c
RECURSIVE RStrip(_, _)
RStrip(s, c) ==
    IF Len(s) > 0 /\ SubSeq(s, Len(s), Len(s)) = c
    THEN RStrip(SubSeq(s, 1, Len(s) - 1), c)
    ELSE s

\* s.lstrip(c) for a one-character c
RECURSIVE LStrip(_, _)
LStrip(s, c) ==
    IF Len(s) > 0 /\ SubSeq(s, 1, 1) = c THEN LStrip(From(s, 1), c) ELSE s

\* s.strip(): the blank is the whitespace of the model's alphabet
Strip(s) == RStrip(LStrip(s, " "), " ")

-----------------------------------------------------------------------------
(* urllib.parse.urlparse(url).netloc, as urlsplit computes it. *)

SchemeChars == {"a", "b", "c", "d", "e", "f", "g", "h", "i", "j", "k", "l", "m",
                "n", "o", "p", "q", "r", "s", "t", "u", "v", "w", "x", "y", "z",
                "0", "1", "2", "3", "4", "5", "6", "7", "8", "9", "+", "-", "."}
Digits      == {"0", "1", "2", "3", "4", "5", "6", "7", "8", "9"}

\* urlsplit: a prefix before the first ":" is a scheme when it starts with a
\* letter and holds scheme characters only; the scheme and the colon are cut
AfterScheme(u) ==
    LET c == Find(u, ":")
    IN  IF /\ c > 0
           /\ SubSeq(u, 1, 1) \in SchemeChars \ (Digits \cup {"+", "-", "."})
           /\ \A k \in 1..c : SubSeq(u, k, k) \in SchemeChars
        THEN From(u, c + 1)
        ELSE u

\* _splitnetloc(url, 2): up to the first of "/", "?", "#" after the "//"
NetlocEnd(r) ==
    LET stops == {k \in 3..Len(r) : SubSeq(r, k, k) \in {"/", "?", "#"}}
    IN  IF stops = {} THEN Len(r)
        ELSE (CHOOSE k \in stops : \A j \in stops : k <= j) - 1

Netloc(u) ==
    LET r == AfterScheme(u)
    IN  IF StartsWith(r, "//") THEN SubSeq(r, 3, NetlocEnd(r)) ELSE ""

-----------------------------------------------------------------------------
(* Sequence helpers. *)

SeqsUpTo(S, n) == UNION {[1..k -> S] : k \in 0..n}

-----------------------------------------------------------------------------
(* fetch_metadata, lines 77-80: the classification of the links. *)

\* the condition of the comprehension that builds metadata["internal_links"]
IsInternal(netloc, link) == Contains(link, netloc) \/ StartsWith(link, "/")

\* a slip the partition would notice: the second comprehension forgets the
\* root-relative test
ExternalIgnoringSlash(netloc, link) == ~Contains(link, netloc)

\* the condition of the comprehension that builds metadata["external_links"]
IsExternal(netloc, link) == ~Contains(link, netloc) /\ ~StartsWith(link, "/")

InternalLinks(u, ls) == SelectSeq(ls, LAMBDA link : IsInternal(Netloc(u), link))
ExternalLinks(u, ls) == SelectSeq(ls, LAMBDA link : IsExternal(Netloc(u), link))

SourceUrls == {"https://example.com", "https://example.com/blog/post/",
               "example.com/page", "http://a.com:80/b"}
Hrefs      == {"/about", "https://example.com/x", "https://other.org/",
               "https://other.org/?ref=example.com", "//a.com:80", "#top", ""}

ClassifyLinks ==
    /\ lpc = "parsed"
    /\ internal_links' = InternalLinks(url, links)
    /\ external_links' = ExternalLinks(url, links)
    /\ lpc' = "classified"
    /\ UNCHANGED <<url, links>>
    /\ UNCHANGED outsideLinks

-----------------------------------------------------------------------------
(* The parsed document (BeautifulSoup).  An element is a record with the    *)
(* fields attrs and contents; a text node is a record with the field text.  *)
(* NoTag is what soup.title and soup.find return when nothing matches.      *)

no_data == "- - -"

NoTag == [absent |-> TRUE]
Text(s) == [text |-> s]
Element(attrs, contents) == [attrs |-> attrs, contents |-> contents]
NoAttrs == <<>>

IsText(node) == DOMAIN node = {"text"}

\* bs4 Tag.string is not None: exactly one child, which is a text node or an
\* element whose own .string is not None
RECURSIVE HasString(_)
HasString(tag) ==
    /\ Len(tag.contents) = 1
    /\ \/ IsText(tag.contents[1])
       \/ HasString(tag.contents[1])

\* bs4 Tag.string when it is not None
RECURSIVE StringOf(_)
StringOf(tag) ==
    IF IsText(tag.contents[1]) THEN tag.contents[1].text
    ELSE StringOf(tag.contents[1])

\* (tag or {}).get(key, default): a Tag is always truthy, None is not
GetAttr(tag, key, default) ==
    IF tag = NoTag THEN default
    ELSE IF key \in DOMAIN tag.attrs THEN tag.attrs[key] ELSE default

\* unicodedata.normalize("NFKC", v): the alphabet of the model is ASCII, whose
\* characters are their own NFKC form
NFKC(v) == v

\* line 40 raises AttributeError (None has no strip) when the title element
\* exists and its .string is None; only requests.RequestException is caught
TitleRaises(sp) == sp.title # NoTag /\ ~HasString(sp.title)

\* line 40, when it does not raise
Title(sp) == IF sp.title # NoTag THEN Strip(StringOf(sp.title)) ELSE no_data

\* lines 41-50
MetaField(tag, key) == Strip(GetAttr(tag, key, no_data))

Raised(exc) == [kind |-> "raised", exc |-> exc]

\* fetch_metadata(url) once requests.get has answered with the document sp
Extract(u, sp) ==
    IF TitleRaises(sp) THEN Raised("AttributeError")
    ELSE [kind           |-> "record",
          url            |-> NFKC(u),
          title          |-> NFKC(Title(sp)),
          description    |-> NFKC(MetaField(sp.description, "content")),
          keywords       |-> NFKC(MetaField(sp.keywords, "content")),
          author         |-> NFKC(MetaField(sp.author, "content")),
          og_title       |-> NFKC(MetaField(sp.og_title, "content")),
          og_description |-> NFKC(MetaField(sp.og_description, "content")),
          og_image       |-> NFKC(MetaField(sp.og_image, "content")),
          canonical      |-> NFKC(MetaField(sp.canonical, "href")),
          internal_links |-> InternalLinks(u, sp.hrefs),
          external_links |-> ExternalLinks(u, sp.hrefs)]

Titles ==
    { NoTag,
      Element(NoAttrs, <<>>),
      Element(NoAttrs, <<Text("Hi")>>),
      Element(NoAttrs, <<Text(" ")>>),
      Element(NoAttrs, <<Text("a"), Element(NoAttrs, <<Text("b")>>)>>),
      Element(NoAttrs, <<Element(NoAttrs, <<Text("b")>>)>>),
      Element(NoAttrs, <<Element(NoAttrs, <<>>)>>) }

MetaTags == { NoTag, Element(NoAttrs, <<>>), Element([content |-> " x "], <<>>) }
LinkTags == { NoTag, Element(NoAttrs, <<>>), Element([href |-> "/p"], <<>>) }

Soups ==
    [title : Titles, description : MetaTags, keywords : MetaTags,
     author : MetaTags, og_title : MetaTags, og_description : MetaTags,
     og_image : MetaTags, canonical : LinkTags, hrefs : {<<>>, <<"/about">>}]

Pending == [kind |-> "pending"]
PageUrl == "https://example.com"

\* the body of fetch_metadata after a successful requests.get
ExtractMetadata ==
    /\ metadata = Pending
    /\ metadata' = Extract(PageUrl, soup)
    /\ UNCHANGED soup
    /\ UNCHANGED outsideExtract

-----------------------------------------------------------------------------
(* save_metadata.  Lines 52-74 and 120-125 (the word counts and the image   *)
(* list) are left out: the record of the model has no top_words, so the     *)
(* table of line 122 is never written.                                      *)

Range(s) == {s[k] : k \in DOMAIN s}

\* line 90: the three chained replace calls
Sanitize(u) == Replace(Replace(Replace(u, "http://", ""), "https://", ""), "/", "_")

\* line 90: os.path.join(folder, f"{timestamp}_{...}.md")
FileName(md, folder, timestamp) ==
    folder \o "/" \o timestamp \o "_" \o Sanitize(md.url) \o ".md"

\* line 92
Domain(md) == RStrip(md.url, "/")

\* lines 114-118: the reference written for og_image, "" when none is written
ImageLine(md) ==
    IF md.og_image # "" /\ md.og_image # no_data
    THEN "<img src=\"" \o
         (IF StartsWith(md.og_image, "/") THEN Domain(md) \o md.og_image
          ELSE md.og_image) \o
         "\" alt=\"OG Image\" width=\"500px\">\n\n"
    ELSE ""

\* The hrefs the rendered records draw their links from, and the hash of a
\* string under a hash seed: CPython salts str hashes with a seed chosen when
\* the interpreter starts (PYTHONHASHSEED unset), so the iteration order of a
\* set of strings is fixed within a process and differs between processes.
HrefPool == <<"https://x.org", "https://y.org", "#top", "tel:1">>
HashSeeds == 0..3
PoolIndex(link) == CHOOSE k \in DOMAIN HrefPool : HrefPool[k] = link
Hash(seed, link) == (PoolIndex(link) * (seed + 1)) % 5

\* line 129: list(set(external_links)) in an interpreter started with seed
RECURSIVE SetOrder(_, _)
SetOrder(seed, S) ==
    IF S = {} THEN <<>>
    ELSE LET first == CHOOSE x \in S : \A y \in S : Hash(seed, x) <= Hash(seed, y)
         IN  <<first>> \o SetOrder(seed, S \ {first})

\* lines 130-133
KeepsLink(md, link) ==
    /\ ~StartsWith(link, Domain(md))
    /\ ~StartsWith(link, "#")
    /\ ~StartsWith(link, "tel:")
    /\ Strip(link) # ""

FilteredExternalLinks(md, seed) ==
    SelectSeq(SetOrder(seed, Range(md.external_links)),
              LAMBDA link : KeepsLink(md, link))

RECURSIVE Bullets(_)
Bullets(ls) ==
    IF ls = <<>> THEN "" ELSE "- " \o Head(ls) \o "\n" \o Bullets(Tail(ls))

\* lines 134-138
LinksBlock(md, seed) ==
    LET kept == FilteredExternalLinks(md, seed)
    IN  IF kept # <<>> THEN "**External links:**\n\n" \o Bullets(kept) \o "\n"
        ELSE ""

\* lines 95-138: everything save_metadata writes to the file
Document(md, seed) ==
    "# " \o md.url \o "\n\n" \o
    "**Title:** " \o md.title \o "\n\n" \o
    "**Description:** " \o md.description \o "\n\n" \o
    "**Keywords:** " \o md.keywords \o "\n\n" \o
    "**Author:** " \o md.author \o "\n\n" \o
    ImageLine(md) \o
    LinksBlock(md, seed)

\* the records rendered: each is what fetch_metadata returns for a page
RenderUrls == {"https://example.com", "https://example.com/",
               "https://example.com/blog/post/"}
OgImageTags == { NoTag, Element([content |-> "/img/x.png"], <<>>),
                 Element([content |-> "https://cdn.org/i.png"], <<>>) }
RenderSoups ==
    [title : {Element(NoAttrs, <<Text("Hi")>>)}, description : {NoTag},
     keywords : {NoTag}, author : {NoTag}, og_title : {NoTag},
     og_description : {NoTag}, og_image : OgImageTags, canonical : {NoTag},
     hrefs : SeqsUpTo(Range(HrefPool), MaxLinks)]

\* save_metadata(record, folder) with a write that succeeds
SaveMetadata ==
    /\ Len(rendered) < MaxRenders
    /\ rendered' = Append(rendered, Document(record, hashseed))
    /\ UNCHANGED <<record, hashseed>>
    /\ UNCHANGED outsideRender

\* the program is started again on the same day: a new interpreter, a new seed
RestartInterpreter ==
    /\ rendered # <<>>
    /\ Len(rendered) < MaxRenders
    /\ hashseed' \in HashSeeds
    /\ UNCHANGED <<record, rendered>>
    /\ UNCHANGED outsideRender

-----------------------------------------------------------------------------
(* The file system and the printed lines. *)

NoFiles == [p \in {} |-> 0]
WriteFile(fs, path, content) ==
    [p \in DOMAIN fs \cup {path} |-> IF p = path THEN content ELSE fs[p]]

\* how an open(path, "w") block can end: normally, with open() raising (the
\* file is untouched) or with a write raising (the file is left truncated)
WriteOutcomes == {"ok", "open_error", "write_error"}
Truncated == [truncated |-> TRUE]
Written(fs, path, content, w) ==
    IF w = "ok" THEN WriteFile(fs, path, content)
    ELSE IF w = "write_error" THEN WriteFile(fs, path, Truncated)
    ELSE fs

Line(ev, arg) == [ev |-> ev, arg |-> arg]

OUTPUT_FOLDER == "output"
PARTISANS_FOLDER == OUTPUT_FOLDER \o "/" \o "partisans"
WEBSITES_FILE == "websites.json"
websites_csv == OUTPUT_FOLDER \o "/" \o "websites_metadata.csv"
partisans_csv == PARTISANS_FOLDER \o "/" \o "partisans_metadata.csv"

-----------------------------------------------------------------------------
(* save_to_csv and the two lines of process_urls that call it. *)

\* line 147
CsvFile(base_csv_file, timestamp) ==
    Replace(base_csv_file, ".csv", "") \o "_" \o timestamp \o ".csv"

\* line 153 (the top_words column goes with the word counts, left out)
Header == <<"url", "title", "description", "keywords", "author", "og_image",
            "external_links">>

\* lines 155-160
Row(md) == <<md.url, md.title, md.description, md.keywords, md.author,
             md.og_image, md.external_links>>

\* lines 153-160: the rows the writer receives, the header first
CsvRows(list) == <<Header>> \o [k \in 1..Len(list) |-> Row(list[k])]

\* save_to_csv(list, base_csv_file): the files and the printed lines after it
save_to_csv(fs, o, list, base_csv_file, timestamp, w) ==
    LET csv_file == CsvFile(base_csv_file, timestamp)
    IN  [files |-> Written(fs, csv_file, [rows |-> CsvRows(list)], w),
         out   |-> Append(o, IF w = "ok" THEN Line("Data saved to", csv_file)
                             ELSE Line("Error saving to CSV", w))]

\* a slip: the export is called whatever the collection holds
AlwaysExport(list) == TRUE

\* line 176: if metadata_list
ExportGuard(list) == list # <<>>

\* lines 176-177
ExportIfAny(fs, o, list, base_csv_file, timestamp, w) ==
    IF ExportGuard(list) THEN save_to_csv(fs, o, list, base_csv_file, timestamp, w)
    ELSE [files |-> fs, out |-> o]

-----------------------------------------------------------------------------
(* load_websites. *)

\* dict.get(key, default)
DictGet(d, key, default) == IF key \in DOMAIN d THEN d[key] ELSE default

RunUrls == {"http://a.com/b", "https://a.com/b", "https://c.org/"}

\* the URL lists a websites.json of the model can hold
UrlListPairs ==
    {p \in SeqsUpTo(RunUrls, MaxUrls) \X SeqsUpTo(RunUrls, MaxUrls) :
        Len(p[1]) + Len(p[2]) <= MaxUrls}

\* the top-level JSON objects: each of the two keys may be missing
JsonObjects ==
    {[urls |-> p[1], partisans_urls |-> p[2]] : p \in UrlListPairs}
    \cup {[urls |-> p[1]] : p \in {q \in UrlListPairs : q[2] = <<>>}}
    \cup {[partisans_urls |-> p[2]] : p \in {q \in UrlListPairs : q[1] = <<>>}}

\* what open() and json.load() meet at WEBSITES_FILE
Configs ==
    {[file |-> "missing"], [file |-> "unreadable"], [file |-> "not json"],
     [file |-> "json", type |-> "list"], [file |-> "json", type |-> "string"]}
    \cup {[file |-> "json", type |-> "object", data |-> d] : d \in JsonObjects}

Returned(a, b) == [kind |-> "returned", websites |-> a, partisans_urls |-> b]

\* lines 21-27: FileNotFoundError and json.JSONDecodeError are caught;
\* PermissionError (open) and AttributeError (list.get, str.get) are not
load_websites(cfg) ==
    IF cfg.file = "missing" \/ cfg.file = "not json" THEN Returned(<<>>, <<>>)
    ELSE IF cfg.file = "unreadable" THEN Raised("PermissionError")
    ELSE IF cfg.type # "object" THEN Raised("AttributeError")
    ELSE Returned(DictGet(cfg.data, "urls", <<>>),
                  DictGet(cfg.data, "partisans_urls", <<>>))

-----------------------------------------------------------------------------
(* One run of the program: __main__ and process_urls. *)

Dates == {"20240101"}

\* the documents requests.get answers with during the run
PageHi == [title |-> Element(NoAttrs, <<Text("Hi")>>), description |-> NoTag,
           keywords |-> NoTag, author |-> NoTag, og_title |-> NoTag,
           og_description |-> NoTag,
           og_image |-> Element([content |-> "/img/x.png"], <<>>),
           canonical |-> NoTag, hrefs |-> <<"/about", "https://x.org">>]
PageEmptyTitle == [PageHi EXCEPT !.title = Element(NoAttrs, <<>>)]
RunSoups == {PageHi, PageEmptyTitle}

GroupUrls(g) == IF g = 1 THEN websites ELSE partisans_urls
GroupFolder(g) == IF g = 1 THEN OUTPUT_FOLDER ELSE PARTISANS_FOLDER
GroupCsv(g) == IF g = 1 THEN websites_csv ELSE partisans_csv

\* line 180
LoadWebsites ==
    /\ pc = "load"
    /\ LET r == load_websites(config)
       IN  IF r.kind = "raised"
           THEN pc' = "crashed" /\ UNCHANGED <<websites, partisans_urls>>
           ELSE /\ pc' = "main"
                /\ websites' = r.websites
                /\ partisans_urls' = r.partisans_urls
    /\ UNCHANGED <<config, group, i, metadata_list, files, out, today>>
    /\ UNCHANGED outsideRun

\* lines 185-186
NoUrlsFound ==
    /\ pc = "main"
    /\ websites = <<>> /\ partisans_urls = <<>>
    /\ pc' = "done"
    /\ out' = <<Line("No websites or partisans URLs found in", WEBSITES_FILE)>>
    /\ UNCHANGED <<config, websites, partisans_urls, group, i, metadata_list,
                   files, today>>
    /\ UNCHANGED outsideRun

\* line 187
UrlsFound ==
    /\ pc = "main"
    /\ ~(websites = <<>> /\ partisans_urls = <<>>)
    /\ pc' = "group"
    /\ group' = 1
    /\ UNCHANGED <<config, websites, partisans_urls, i, metadata_list, files,
                   out, today>>
    /\ UNCHANGED outsideRun

\* lines 188-189 and 190-191 with a non-empty list, and line 167
StartProcessUrls ==
    /\ pc = "group"
    /\ GroupUrls(group) # <<>>
    /\ pc' = "loop"
    /\ i' = 1
    /\ metadata_list' = <<>>
    /\ out' = <<>>
    /\ UNCHANGED <<config, websites, partisans_urls, group, files, today>>
    /\ UNCHANGED outsideRun

\* lines 188 and 190 with an empty list
SkipGroup ==
    /\ pc = "group"
    /\ GroupUrls(group) = <<>>
    /\ pc' = IF group = 1 THEN "group" ELSE "done"
    /\ group' = IF group = 1 THEN 2 ELSE group
    /\ UNCHANGED <<config, websites, partisans_urls, i, metadata_list, files,
                   out, today>>
    /\ UNCHANGED outsideRun

\* a slip: the loop is left at the first URL that cannot be fetched
AbortAfterFailure(k) == Len(GroupUrls(group)) + 1

\* lines 171-172: the for loop goes on with the next URL
AfterFailure(k) == k + 1

\* lines 169-172 when requests.get or raise_for_status raises (lines 83-85)
FetchFails ==
    /\ pc = "loop"
    /\ i <= Len(GroupUrls(group))
    /\ LET site == GroupUrls(group)[i]
       IN  out' = out \o <<Line("Fetching metadata for:", site),
                           Line("Error fetching metadata for", site),
                           Line("Skipping", site)>>
    /\ i' = AfterFailure(i)
    /\ UNCHANGED <<pc, config, websites, partisans_urls, group, metadata_list,
                   files, today>>
    /\ UNCHANGED outsideRun

\* lines 169-170 when the extraction raises: nothing catches the exception
ExtractionRaises ==
    /\ pc = "loop"
    /\ i <= Len(GroupUrls(group))
    /\ \E sp \in RunSoups :
          /\ Extract(GroupUrls(group)[i], sp).kind = "raised"
          /\ out' = Append(out, Line("Fetching metadata for:", GroupUrls(group)[i]))
    /\ pc' = "crashed"
    /\ UNCHANGED <<config, websites, partisans_urls, group, i, metadata_list,
                   files, today>>
    /\ UNCHANGED outsideRun

\* a slip: only a record whose document was written is kept
AppendIfWritten(list, md, w) == IF w = "ok" THEN Append(list, md) ELSE list

\* line 175, reached whatever save_metadata met (lines 141-142)
AfterSave(list, md, w) == Append(list, md)

\* lines 169-175 for a URL whose fetch and extraction succeed
FetchSucceeds ==
    /\ pc = "loop"
    /\ i <= Len(GroupUrls(group))
    /\ \E sp \in RunSoups, w \in WriteOutcomes :
          LET site == GroupUrls(group)[i]
              md == Extract(site, sp)
              file_name == FileName(md, GroupFolder(group), today)
          IN  /\ md.kind = "record"
              /\ files' = Written(files, file_name, [document_of |-> md.url], w)
              /\ out' = out \o
                    <<Line("Fetching metadata for:", site),
                      IF w = "ok" THEN Line("Saved to", file_name)
                      ELSE Line("Error saving metadata for", md.url)>>
              /\ metadata_list' = AfterSave(metadata_list, md, w)
    /\ i' = i + 1
    /\ UNCHANGED <<pc, config, websites, partisans_urls, group, today>>
    /\ UNCHANGED outsideRun

\* lines 176-177, after the last URL
EndProcessUrls ==
    /\ pc = "loop"
    /\ i > Len(GroupUrls(group))
    /\ \E w \in WriteOutcomes :
          LET r == ExportIfAny(files, out, metadata_list, GroupCsv(group), today, w)
          IN  files' = r.files /\ out' = r.out
    /\ pc' = "returned"
    /\ UNCHANGED <<config, websites, partisans_urls, group, i, metadata_list,
                   today>>
    /\ UNCHANGED outsideRun

\* back in __main__: line 190 after line 189, the end after line 191
NextGroup ==
    /\ pc = "returned"
    /\ pc' = IF group = 1 THEN "group" ELSE "done"
    /\ group' = IF group = 1 THEN 2 ELSE group
    /\ UNCHANGED <<config, websites, partisans_urls, i, metadata_list, files,
                   out, today>>
    /\ UNCHANGED outsideRun

\* save_to_csv(metadata_list, csv_file) called on a collection as it is
CallSaveToCsv ==
    /\ pc = "collected"
    /\ \E w \in WriteOutcomes :
          LET r == save_to_csv(files, out, metadata_list, GroupCsv(group), today, w)
          IN  files' = r.files /\ out' = r.out
    /\ pc' = "save_to_csv returned"
    /\ UNCHANGED <<config, websites, partisans_urls, group, i, metadata_list,
                   today>>
    /\ UNCHANGED outsideRun

\* lines 176-177 of process_urls on the same collection
CallExportIfAny ==
    /\ pc = "collected"
    /\ \E w \in WriteOutcomes :
          LET r == ExportIfAny(files, out, metadata_list, GroupCsv(group), today, w)
          IN  files' = r.files /\ out' = r.out
    /\ pc' = "process_urls returned"
    /\ UNCHANGED <<config, websites, partisans_urls, group, i, metadata_list,
                   today>>
    /\ UNCHANGED outsideRun

\* the state when the program starts; the other parts stay idle
Init ==
    /\ pc = "load"
    /\ config \in Configs
    /\ websites = <<>>
    /\ partisans_urls = <<>>
    /\ group = 1
    /\ i = 1
    /\ metadata_list = <<>>
    /\ files = NoFiles
    /\ out = <<>>
    /\ today \in Dates
    /\ soup = PageHi /\ metadata = Pending
    /\ url = PageUrl /\ links = <<>> /\ internal_links = <<>>
    /\ external_links = <<>> /\ lpc = "idle"
    /\ record = Pending /\ hashseed = 0 /\ rendered = <<>>

Next ==
    \/ LoadWebsites \/ NoUrlsFound \/ UrlsFound \/ StartProcessUrls \/ SkipGroup
    \/ FetchFails \/ ExtractionRaises \/ FetchSucceeds \/ EndProcessUrls
    \/ NextGroup

\* one run of the program
Spec == Init /\ [][Next]_vars

\* fetch_metadata on every document of Soups
InitExtract ==
    /\ soup \in Soups
    /\ metadata = Pending
    /\ pc = "idle" /\ config = [file |-> "missing"]
    /\ websites = <<>> /\ partisans_urls = <<>> /\ group = 1 /\ i = 1
    /\ metadata_list = <<>> /\ files = NoFiles /\ out = <<>>
    /\ today = "20240101"
    /\ url = PageUrl /\ links = <<>> /\ internal_links = <<>>
    /\ external_links = <<>> /\ lpc = "idle"
    /\ record = Pending /\ hashseed = 0 /\ rendered = <<>>

NextExtract == ExtractMetadata

SpecExtract == InitExtract /\ [][NextExtract]_vars

\* the two link comprehensions on every source URL and href list
InitLinks ==
    /\ url \in SourceUrls
    /\ links \in SeqsUpTo(Hrefs, MaxLinks)
    /\ internal_links = <<>>
    /\ external_links = <<>>
    /\ lpc = "parsed"
    /\ pc = "idle" /\ config = [file |-> "missing"]
    /\ websites = <<>> /\ partisans_urls = <<>> /\ group = 1 /\ i = 1
    /\ metadata_list = <<>> /\ files = NoFiles /\ out = <<>>
    /\ today = "20240101"
    /\ soup = PageHi /\ metadata = Pending
    /\ record = Pending /\ hashseed = 0 /\ rendered = <<>>

NextLinks == ClassifyLinks

SpecLinks == InitLinks /\ [][NextLinks]_vars

\* save_metadata on one record, rendered again in the same or a new process
InitRender ==
    /\ record \in {Extract(u, sp) : u \in RenderUrls, sp \in RenderSoups}
    /\ hashseed \in HashSeeds
    /\ rendered = <<>>
    /\ pc = "idle" /\ config = [file |-> "missing"]
    /\ websites = <<>> /\ partisans_urls = <<>> /\ group = 1 /\ i = 1
    /\ metadata_list = <<>> /\ files = NoFiles /\ out = <<>>
    /\ today = "20240101"
    /\ soup = PageHi /\ metadata = Pending
    /\ url = PageUrl /\ links = <<>> /\ internal_links = <<>>
    /\ external_links = <<>> /\ lpc = "idle"

NextRender == SaveMetadata \/ RestartInterpreter

SpecRender == InitRender /\ [][NextRender]_vars

\* the export on every record collection, called directly and from process_urls
InitExport ==
    /\ pc = "collected"
    /\ metadata_list \in SeqsUpTo({Extract(u, PageHi) : u \in RunUrls}, MaxRecords)
    /\ group \in {1, 2}
    /\ files = NoFiles
    /\ out = <<>>
    /\ today \in Dates
    /\ config = [file |-> "missing"]
    /\ websites = <<>> /\ partisans_urls = <<>> /\ i = 1
    /\ soup = PageHi /\ metadata = Pending
    /\ url = PageUrl /\ links = <<>> /\ internal_links = <<>>
    /\ external_links = <<>> /\ lpc = "idle"
    /\ record = Pending /\ hashseed = 0 /\ rendered = <<>>

NextExport == CallSaveToCsv \/ CallExportIfAny

SpecExport == InitExport /\ [][NextExport]_vars

-----------------------------------------------------------------------------
(* What the printed lines of a process_urls call tell. *)

Fetching == "Fetching metadata for:"
SaveFailed == "Error saving metadata for"
DataSaved == "Data saved to"

Args(ls) == [k \in DOMAIN ls |-> ls[k].arg]

\* the URLs fetch_metadata was called with, in order
FetchedUrls(o) == Args(SelectSeq(o, LAMBDA l : l.ev = Fetching))

\* the URLs whose fetch returned a record, in order: a "Fetching" line that
\* no "Error fetching" line follows
SucceededUrls(o) ==
    LET marked == [k \in DOMAIN o |->
                     [arg |-> o[k].arg,
                      ok  |-> /\ o[k].ev = Fetching
                              /\ (k = Len(o) \/ o[k + 1].ev # "Error fetching metadata for")]]
    IN  Args(SelectSeq(marked, LAMBDA m : m.ok))

\* how many records were collected up to and including line k
RecordsBy(o, k) ==
    Cardinality({m \in 1..k : o[m].ev \in {"Saved to", SaveFailed}})

\* the export of the group was written to the end
Exported == out # <<>> /\ out[Len(out)].ev = DataSaved
ExportedRows == files[out[Len(out)].arg].rows
UrlColumn(rows) == [k \in 1..(Len(rows) - 1) |-> rows[k + 1][1]]

-----------------------------------------------------------------------------
(* The properties. *)

\* C1: when process_urls returns, fetch_metadata was called for every URL of
\* the list in order, whatever fetches failed before, and an export that was
\* written holds the header and then exactly the URLs whose fetch returned a
\* record, one row per occurrence, in list order.
C1_FailedFetchOnlySkips ==
    pc = "returned" =>
        /\ FetchedUrls(out) = GroupUrls(group)
        /\ Exported =>
              /\ ExportedRows[1] = Header
              /\ UrlColumn(ExportedRows) = SucceededUrls(out)

\* a failed fetch was followed by a successful one and the export was written
C1_Witness ==
    /\ pc = "returned"
    /\ Exported
    /\ \E k \in DOMAIN out, m \in DOMAIN out :
          k < m /\ out[k].ev = "Skipping" /\ out[m].ev = "Saved to"
    /\ Len(SucceededUrls(out)) < Len(GroupUrls(group))

\* C2 (as claimed): the extraction never raises, and an absent or empty
\* title element yields the sentinel.
C2_ExtractionNeverRaises ==
    metadata # Pending =>
        /\ metadata.kind = "record"
        /\ (soup.title = NoTag \/ soup.title.contents = <<>>)
              => metadata.title = no_data

\* websites.json is missing, unreadable, not JSON or not a JSON object
BadConfig == config.file # "json" \/ config.type # "object"

\* C3 (as claimed): for a missing, unreadable or malformed websites.json,
\* load_websites returns two empty lists and the run ends with the
\* "no URLs found" line.
C3_BadConfigYieldsEmptyLists ==
    (BadConfig /\ pc # "load") =>
        /\ pc # "crashed"
        /\ websites = <<>> /\ partisans_urls = <<>>
        /\ pc = "done" =>
              out = <<Line("No websites or partisans URLs found in", WEBSITES_FILE)>>

\* the elements of ls at the positions mask sends to b, in order
Side(ls, mask, b) ==
    LET marked == [k \in DOMAIN ls |-> [arg |-> ls[k], on |-> mask[k] = b]]
    IN  Args(SelectSeq(marked, LAMBDA m : m.on))

\* C4: every href occurrence lands in exactly one of the two lists and each
\* list keeps the document order: the lists are the two sides of one split of
\* the positions of links.
C4_LinksArePartitioned ==
    lpc = "classified" =>
        \E mask \in [DOMAIN links -> BOOLEAN] :
            /\ internal_links = Side(links, mask, TRUE)
            /\ external_links = Side(links, mask, FALSE)

\* a document whose links go to both lists
C4_Witness ==
    /\ lpc = "classified"
    /\ Len(links) >= 3
    /\ internal_links # <<>>
    /\ external_links # <<>>

\* C5 (as claimed): a link is internal exactly when its own authority
\* contains the source authority or it starts with "/".
C5_InternalIffAuthorityMatches ==
    lpc = "classified" =>
        \A k \in DOMAIN links :
            (links[k] \in Range(internal_links))
                <=> (Contains(Netloc(links[k]), Netloc(url)) \/ StartsWith(links[k], "/"))

\* an export call has returned; what a file written to the end holds
ExportReturned == pc \in {"save_to_csv returned", "process_urls returned"}
HeaderAndRows ==
    /\ Len(ExportedRows) = Len(metadata_list) + 1
    /\ ExportedRows[1] = Header
    /\ \A k \in DOMAIN metadata_list : ExportedRows[k + 1] = Row(metadata_list[k])

\* C6 (as claimed): save_to_csv given an empty collection writes no file;
\* given N >= 1 records it writes the header and N rows in collection order.
C6_EmptyExportWritesNoFile ==
    ExportReturned =>
        /\ metadata_list = <<>> => files = NoFiles
        /\ (metadata_list # <<>> /\ Exported) => HeaderAndRows

\* C6 (amended): process_urls does not call save_to_csv for an empty
\* collection, so no file is written; whenever save_to_csv writes to the end,
\* the file holds the header and one row per record in collection order (the
\* header alone for an empty collection).
C6_GuardedExport ==
    /\ (pc = "process_urls returned" /\ metadata_list = <<>>)
          => (files = NoFiles /\ out = <<>>)
    /\ (ExportReturned /\ Exported) => HeaderAndRows

\* process_urls ended with an empty collection
C6_Witness ==
    /\ pc = "process_urls returned"
    /\ metadata_list = <<>>
    /\ files = NoFiles

\* C7 (as claimed): two renderings of the same record are byte-identical.
C7_RenderingIsDeterministic ==
    \A k \in DOMAIN rendered, m \in DOMAIN rendered : rendered[k] = rendered[m]

\* scheme and authority of a URL
Origin(u) == SubSeq(u, 1, Len(u) - Len(AfterScheme(u))) \o "//" \o Netloc(u)

\* C8 (as claimed): a root-relative og_image is written after the origin
\* (scheme and authority) of the source URL.
C8_ImageUsesOrigin ==
    \A k \in DOMAIN rendered :
        StartsWith(record.og_image, "/") =>
            Contains(rendered[k],
                     "<img src=\"" \o Origin(record.url) \o record.og_image \o "\"")

\* the per-page documents that lie directly in folder
DocumentsIn(folder) ==
    {p \in DOMAIN files :
        /\ DOMAIN files[p] = {"document_of"}
        /\ StartsWith(p, folder \o "/")
        /\ ~Contains(From(p, Len(folder) + 1), "/")}

\* C9 (as claimed): when every per-page write of the group succeeded, the
\* group's directory holds one document per URL processed successfully.
C9_OneDocumentPerUrl ==
    (pc = "returned" /\ \A k \in DOMAIN out : out[k].ev # SaveFailed) =>
        Cardinality(DocumentsIn(GroupFolder(group)))
            = Cardinality(Range(SucceededUrls(out)))

\* C10: a record whose per-page write failed is in the collection at its
\* place; when process_urls returns every URL of the list was fetched, and an
\* export that was written has the record's row.
C10_FailedWriteKeepsRecord ==
    pc \in {"loop", "returned"} =>
        \A k \in DOMAIN out :
            out[k].ev = SaveFailed =>
                LET j == RecordsBy(out, k)
                IN  /\ j <= Len(metadata_list)
                    /\ metadata_list[j].url = out[k].arg
                    /\ pc = "returned" =>
                          /\ FetchedUrls(out) = GroupUrls(group)
                          /\ Exported => ExportedRows[j + 1] = Row(metadata_list[j])

\* a per-page write failed, a later URL was processed, the export was written
C10_Witness ==
    /\ pc = "returned"
    /\ Exported
    /\ \E k \in DOMAIN out, m \in DOMAIN out :
          k < m /\ out[k].ev = SaveFailed /\ out[m].ev = Fetching

====
